---- MODULE Spec2Model ----
(***************************************************************************)
(* Synchronisation mechanisms of the repository, as state machines:        *)
(*   - ResourceRing   : dining philosophers (waiter semaphore + forks)     *)
(*   - BoundedChannel : bounded circular buffer (two semaphores + mutex)   *)
(*   - MonitorQueue   : thread-safe queue (mutex + condition variable)     *)
(* Each program is a separate executable: a specification starts one of    *)
(* them, the threads of the other two do not exist (their sets are empty). *)
(***************************************************************************)
EXTENDS Integers, Sequences, FiniteSets, TLC

(* ---- bounds of the model ---- *)
MaxPhilosophers == 3
MaxCycles == 2
\* producer threads plus consumer threads of one run
MaxThreads == 3
\* items produced in one run, all producers together
MaxTotal == 3
MaxBuffer == 2

VARIABLES
    \* ---- dining_philosophers.c ----
    num_philosophers,        \* int num_philosophers
    cycles_per_philosopher,  \* int cycles_per_philosopher
    forks,                   \* pthread_mutex_t *forks : fork index -> locked?
    waiter,                  \* sem_t waiter : value of the semaphore
    ppc,                     \* position of each philosopher thread
    cyc,                     \* loop variable i of each philosopher
    eaten,                   \* number of calls of eat() by each philosopher
    variant,                 \* "program": the ring as main runs it; else a ring of spec 4.2
    lang,                    \* "c" or "go": the C or the Go program of the pair runs
    \* ---- producer_consumer.c / producer_consumer.go ----
    num_producers,           \* int num_producers
    num_consumers,           \* int num_consumers
    buffer_size,             \* int buffer_size (CircularBuffer.size)
    items_per_producer,      \* int items_per_producer
    buffer,                  \* int *buffer (CircularBuffer.data)
    in,                      \* int in
    out,                     \* int out
    empty_slots,             \* sem_t empty_slots (tokens in semEmpty)
    full_slots,              \* sem_t full_slots (tokens in semFull)
    mutex_buffer,            \* pthread_mutex_t mutex_buffer (CircularBuffer.lock)
    prodPc,                  \* position of each producer thread
    prodI,                   \* loop variable i of each producer
    prodItem,                \* local variable item of each producer
    consPc,                  \* position of each consumer thread
    consItem,                \* local variable item of each consumer
    putLog,                  \* history: the items written, in the order of the writes
    takeLog,                 \* history: the items read, in the order of the reads
    bcMain,                  \* position of main of producer_consumer
    \* ---- tsqueue.c / tsqueue.go ----
    tsq_producers,           \* int num_producers of tsqueue's main
    tsq_consumers,           \* int num_consumers of tsqueue's main
    tsq_items,               \* int items_per_producer of tsqueue's main
    head,                    \* Node *head : the value of the first node, or NULL
    tail,                    \* Node *tail : the value of the last node, or NULL
    nextNode,                \* Node.next of every allocated node (nodes named by value)
    lock,                    \* pthread_mutex_t lock of the queue
    not_empty,               \* pthread_cond_t not_empty : the consumers blocked in the wait
    count_lock,              \* pthread_mutex_t count_lock
    consumed_count,          \* int consumed_count
    qpPc,                    \* position of each producer thread
    qpI,                     \* loop variable i of each producer thread
    qcPc,                    \* position of each consumer thread
    qcItem,                  \* local variable item of each consumer thread
    mainPc,                  \* position of tsqueue's main thread
    enqLog,                  \* history: the values linked by enqueue, in order
    deqLog                   \* history: the values unlinked by dequeue, in order

ringVars == <<num_philosophers, cycles_per_philosopher, forks, waiter, ppc, cyc, eaten, variant>>

bcConf == <<lang, num_producers, num_consumers, buffer_size, items_per_producer>>

bcVars == <<bcConf, buffer, in, out, empty_slots, full_slots, mutex_buffer,
            prodPc, prodI, prodItem, consPc, consItem, putLog, takeLog, bcMain>>

tsqConf == <<tsq_producers, tsq_consumers, tsq_items>>

tsqVars == <<tsqConf, head, tail, nextNode, lock, not_empty, count_lock, consumed_count,
             qpPc, qpI, qcPc, qcItem, mainPc, enqLog, deqLog>>

vars == <<ringVars, bcVars, tsqVars>>

NULL == -1

(***************************************************************************)
(* The state of a program that is not running.                             *)
(***************************************************************************)
NoRing ==
    /\ num_philosophers = 0
    /\ cycles_per_philosopher = 0
    /\ forks = << >>
    /\ waiter = 0
    /\ ppc = << >>
    /\ cyc = << >>
    /\ eaten = << >>
    /\ variant = "program"

NoBC ==
    /\ num_producers = 0
    /\ num_consumers = 0
    /\ buffer_size = 0
    /\ items_per_producer = 0
    /\ buffer = << >>
    /\ in = 0
    /\ out = 0
    /\ empty_slots = 0
    /\ full_slots = 0
    /\ mutex_buffer = FALSE
    /\ prodPc = << >>
    /\ prodI = << >>
    /\ prodItem = << >>
    /\ consPc = << >>
    /\ consItem = << >>
    /\ putLog = << >>
    /\ takeLog = << >>
    /\ bcMain = "off"

NoTsq ==
    /\ tsq_producers = 0
    /\ tsq_consumers = 0
    /\ tsq_items = 0
    /\ head = NULL
    /\ tail = NULL
    /\ nextNode = << >>
    /\ lock = FALSE
    /\ not_empty = {}
    /\ count_lock = FALSE
    /\ consumed_count = 0
    /\ qpPc = << >>
    /\ qpI = << >>
    /\ qcPc = << >>
    /\ qcItem = << >>
    /\ mainPc = "off"
    /\ enqLog = << >>
    /\ deqLog = << >>

(***************************************************************************)
(* ResourceRing: dining_philosophers.c                                     *)
(***************************************************************************)
Phils == 0 .. (num_philosophers - 1)

left(id) == id
right(id) == (id + 1) % num_philosophers

\* the fork locked first / second by the if (left < right) of philosopher()
LeftFirst(id) == left(id)
FirstFork(id) == IF left(id) < right(id) THEN left(id) ELSE right(id)
SecondFork(id) == IF left(id) < right(id) THEN right(id) ELSE left(id)

\* pthread_mutex_lock can return only when the mutex is free
MutexIgnored(m) == TRUE
MutexFree(m) == m = FALSE

\* sem_wait can return only when the value is positive
SemNeverBlocks(s) == TRUE
SemPositive(s) == s > 0

\* sem_init(&waiter, 0, num_philosophers - 1)
WaiterInitAll == num_philosophers
WaiterInit == num_philosophers - 1

InitRing ==
    /\ num_philosophers \in 2 .. MaxPhilosophers
    /\ cycles_per_philosopher \in 1 .. MaxCycles
    /\ forks = [f \in 0 .. (num_philosophers - 1) |-> FALSE]
    /\ waiter = WaiterInit
    /\ ppc = [p \in 0 .. (num_philosophers - 1) |-> "think"]
    /\ cyc = [p \in 0 .. (num_philosophers - 1) |-> 0]
    /\ eaten = [p \in 0 .. (num_philosophers - 1) |-> 0]
    /\ variant = "program"
    /\ lang = "c"
    /\ NoBC
    /\ NoTsq

\* for (i = 0; i < cycles_per_philosopher; ...) { think(id); sem_wait(&waiter);
PhilSemWait(p) ==
    /\ ppc[p] = "think"
    /\ cyc[p] < cycles_per_philosopher
    /\ SemPositive(waiter)
    /\ waiter' = waiter - 1
    /\ ppc' = [ppc EXCEPT ![p] = "first"]
    /\ UNCHANGED <<variant, num_philosophers, cycles_per_philosopher, forks, cyc, eaten>>
    /\ UNCHANGED <<bcVars, tsqVars>>

\* loop condition false: the philosopher prints its last message and returns
PhilFinish(p) ==
    /\ ppc[p] = "think"
    /\ cyc[p] >= cycles_per_philosopher
    /\ ppc' = [ppc EXCEPT ![p] = "done"]
    /\ UNCHANGED <<variant, num_philosophers, cycles_per_philosopher, forks, waiter, cyc, eaten>>
    /\ UNCHANGED <<bcVars, tsqVars>>

\* first pthread_mutex_lock of the taken branch
PhilLockFirst(p) ==
    /\ ppc[p] = "first"
    /\ MutexFree(forks[FirstFork(p)])
    /\ forks' = [forks EXCEPT ![FirstFork(p)] = TRUE]
    /\ ppc' = [ppc EXCEPT ![p] = "second"]
    /\ UNCHANGED <<variant, num_philosophers, cycles_per_philosopher, waiter, cyc, eaten>>
    /\ UNCHANGED <<bcVars, tsqVars>>

\* second pthread_mutex_lock of the taken branch
PhilLockSecond(p) ==
    /\ ppc[p] = "second"
    /\ MutexFree(forks[SecondFork(p)])
    /\ forks' = [forks EXCEPT ![SecondFork(p)] = TRUE]
    /\ ppc' = [ppc EXCEPT ![p] = "eat"]
    /\ UNCHANGED <<variant, num_philosophers, cycles_per_philosopher, waiter, cyc, eaten>>
    /\ UNCHANGED <<bcVars, tsqVars>>

\* eat(id, i)
PhilEat(p) ==
    /\ ppc[p] = "eat"
    /\ eaten' = [eaten EXCEPT ![p] = @ + 1]
    /\ ppc' = [ppc EXCEPT ![p] = "unlock_left"]
    /\ UNCHANGED <<variant, num_philosophers, cycles_per_philosopher, forks, waiter, cyc>>
    /\ UNCHANGED <<bcVars, tsqVars>>

\* pthread_mutex_unlock(&forks[left])
PhilUnlockLeft(p) ==
    /\ ppc[p] = "unlock_left"
    /\ forks' = [forks EXCEPT ![left(p)] = FALSE]
    /\ ppc' = [ppc EXCEPT ![p] = "unlock_right"]
    /\ UNCHANGED <<variant, num_philosophers, cycles_per_philosopher, waiter, cyc, eaten>>
    /\ UNCHANGED <<bcVars, tsqVars>>

\* (a slip: the left fork is unlocked a second time, the right one never)
PhilUnlockLeftAgain(p) ==
    /\ ppc[p] = "unlock_right"
    /\ forks' = [forks EXCEPT ![left(p)] = FALSE]
    /\ ppc' = [ppc EXCEPT ![p] = "post"]
    /\ UNCHANGED <<variant, num_philosophers, cycles_per_philosopher, waiter, cyc, eaten>>
    /\ UNCHANGED <<bcVars, tsqVars>>

\* pthread_mutex_unlock(&forks[right])
PhilUnlockRight(p) ==
    /\ ppc[p] = "unlock_right"
    /\ forks' = [forks EXCEPT ![right(p)] = FALSE]
    /\ ppc' = [ppc EXCEPT ![p] = "post"]
    /\ UNCHANGED <<variant, num_philosophers, cycles_per_philosopher, waiter, cyc, eaten>>
    /\ UNCHANGED <<bcVars, tsqVars>>

\* (a slip: the ticket is not given back)
PhilSemPostLost(p) ==
    /\ ppc[p] = "post"
    /\ waiter' = waiter
    /\ cyc' = [cyc EXCEPT ![p] = @ + 1]
    /\ ppc' = [ppc EXCEPT ![p] = "think"]
    /\ UNCHANGED <<variant, num_philosophers, cycles_per_philosopher, forks, eaten>>
    /\ UNCHANGED <<bcVars, tsqVars>>

\* sem_post(&waiter); i++
PhilSemPost(p) ==
    /\ ppc[p] = "post"
    /\ waiter' = waiter + 1
    /\ cyc' = [cyc EXCEPT ![p] = @ + 1]
    /\ ppc' = [ppc EXCEPT ![p] = "think"]
    /\ UNCHANGED <<variant, num_philosophers, cycles_per_philosopher, forks, eaten>>
    /\ UNCHANGED <<bcVars, tsqVars>>

philosopher(p) ==
    /\ p \in Phils
    /\  \/ PhilSemWait(p)
        \/ PhilFinish(p)
        \/ PhilLockFirst(p)
        \/ PhilLockSecond(p)
        \/ PhilEat(p)
        \/ PhilUnlockLeft(p)
        \/ PhilUnlockRight(p)
        \/ PhilSemPost(p)

NextRing ==
    \/ \E p \in Phils : PhilSemWait(p)
    \/ \E p \in Phils : PhilFinish(p)
    \/ \E p \in Phils : PhilLockFirst(p)
    \/ \E p \in Phils : PhilLockSecond(p)
    \/ \E p \in Phils : PhilEat(p)
    \/ \E p \in Phils : PhilUnlockLeft(p)
    \/ \E p \in Phils : PhilUnlockRight(p)
    \/ \E p \in Phils : PhilSemPost(p)

SpecRing == InitRing /\ [][NextRing]_vars

\* every philosopher is an OS thread that the scheduler keeps running
FairRing == \A p \in 0 .. (MaxPhilosophers - 1) : WF_vars(philosopher(p))

FairSpecRing == SpecRing /\ FairRing

\* The ring of spec 4.2 whose cycle is "repeated for a fixed cycle count or
\* indefinitely": main only knows the fixed count, the indefinite ring is the
\* same loop whose counter never reaches its bound.
InitRingEndless ==
    /\ num_philosophers \in 2 .. MaxPhilosophers
    /\ cycles_per_philosopher = 1
    /\ forks = [f \in 0 .. (num_philosophers - 1) |-> FALSE]
    /\ waiter = WaiterInit
    /\ ppc = [p \in 0 .. (num_philosophers - 1) |-> "think"]
    /\ cyc = [p \in 0 .. (num_philosophers - 1) |-> 0]
    /\ eaten = [p \in 0 .. (num_philosophers - 1) |-> 0]
    /\ variant = "endless"
    /\ lang = "c"
    /\ NoBC
    /\ NoTsq

\* sem_post(&waiter); } of a cycle that is not the last one however many have
\* been run: the count of cycles and of meals is not advanced
PhilSemPostEndless(p) ==
    /\ variant = "endless"
    /\ ppc[p] = "post"
    /\ waiter' = waiter + 1
    /\ eaten' = [eaten EXCEPT ![p] = cyc[p]]
    /\ ppc' = [ppc EXCEPT ![p] = "think"]
    /\ UNCHANGED <<variant, num_philosophers, cycles_per_philosopher, forks, cyc>>
    /\ UNCHANGED <<bcVars, tsqVars>>

NextRingCycling ==
    \/ NextRing
    \/ \E p \in Phils : PhilSemPostEndless(p)

SpecRingCycling == (InitRing \/ InitRingEndless) /\ [][NextRingCycling]_vars

FairRingCycling ==
    \A p \in 0 .. (MaxPhilosophers - 1) :
        WF_vars(philosopher(p) \/ (p \in Phils /\ PhilSemPostEndless(p)))

FairSpecRingCycling == SpecRingCycling /\ FairRingCycling

(***************************************************************************)
(* The two rings of spec 4.2 that keep one deadlock-prevention mechanism:  *)
(* philosopher() with the index test removed (left, then right), and       *)
(* philosopher() without the gate (a waiter that admits all N).            *)
(***************************************************************************)
\* only the gate: sem_init(&waiter, 0, num_philosophers - 1), lock order left, right
InitRingGateOnly ==
    /\ num_philosophers \in 2 .. MaxPhilosophers
    /\ cycles_per_philosopher \in 1 .. MaxCycles
    /\ forks = [f \in 0 .. (num_philosophers - 1) |-> FALSE]
    /\ waiter = WaiterInit
    /\ ppc = [p \in 0 .. (num_philosophers - 1) |-> "think"]
    /\ cyc = [p \in 0 .. (num_philosophers - 1) |-> 0]
    /\ eaten = [p \in 0 .. (num_philosophers - 1) |-> 0]
    /\ variant = "gate_only"
    /\ lang = "c"
    /\ NoBC
    /\ NoTsq

\* only the order: the if (left < right) is kept, the waiter never refuses
InitRingOrderOnly ==
    /\ num_philosophers \in 2 .. MaxPhilosophers
    /\ cycles_per_philosopher \in 1 .. MaxCycles
    /\ forks = [f \in 0 .. (num_philosophers - 1) |-> FALSE]
    /\ waiter = num_philosophers
    /\ ppc = [p \in 0 .. (num_philosophers - 1) |-> "think"]
    /\ cyc = [p \in 0 .. (num_philosophers - 1) |-> 0]
    /\ eaten = [p \in 0 .. (num_philosophers - 1) |-> 0]
    /\ variant = "order_only"
    /\ lang = "c"
    /\ NoBC
    /\ NoTsq

VariantFirstFork(id) == IF variant = "gate_only" THEN left(id) ELSE FirstFork(id)
VariantSecondFork(id) == IF variant = "gate_only" THEN right(id) ELSE SecondFork(id)

\* first pthread_mutex_lock
PhilLockFirstVariant(p) ==
    /\ ppc[p] = "first"
    /\ MutexFree(forks[VariantFirstFork(p)])
    /\ forks' = [forks EXCEPT ![VariantFirstFork(p)] = TRUE]
    /\ ppc' = [ppc EXCEPT ![p] = "second"]
    /\ UNCHANGED <<variant, num_philosophers, cycles_per_philosopher, waiter, cyc, eaten>>
    /\ UNCHANGED <<bcVars, tsqVars>>

\* second pthread_mutex_lock
PhilLockSecondVariant(p) ==
    /\ ppc[p] = "second"
    /\ MutexFree(forks[VariantSecondFork(p)])
    /\ forks' = [forks EXCEPT ![VariantSecondFork(p)] = TRUE]
    /\ ppc' = [ppc EXCEPT ![p] = "eat"]
    /\ UNCHANGED <<variant, num_philosophers, cycles_per_philosopher, waiter, cyc, eaten>>
    /\ UNCHANGED <<bcVars, tsqVars>>

philosopherVariant(p) ==
    /\ p \in Phils
    /\  \/ PhilSemWait(p)
        \/ PhilFinish(p)
        \/ PhilLockFirstVariant(p)
        \/ PhilLockSecondVariant(p)
        \/ PhilEat(p)
        \/ PhilUnlockLeft(p)
        \/ PhilUnlockRight(p)
        \/ PhilSemPost(p)

NextRingVariants ==
    \/ \E p \in Phils : PhilSemWait(p)
    \/ \E p \in Phils : PhilFinish(p)
    \/ \E p \in Phils : PhilLockFirstVariant(p)
    \/ \E p \in Phils : PhilLockSecondVariant(p)
    \/ \E p \in Phils : PhilEat(p)
    \/ \E p \in Phils : PhilUnlockLeft(p)
    \/ \E p \in Phils : PhilUnlockRight(p)
    \/ \E p \in Phils : PhilSemPost(p)

SpecRingVariants == (InitRingGateOnly \/ InitRingOrderOnly) /\ [][NextRingVariants]_vars

FairRingVariants == \A p \in 0 .. (MaxPhilosophers - 1) : WF_vars(philosopherVariant(p))

FairSpecRingVariants == SpecRingVariants /\ FairRingVariants

(***************************************************************************)
(* BoundedChannel: producer_consumer.c and producer_consumer.go             *)
(***************************************************************************)
Producers == 0 .. (num_producers - 1)
Consumers == 0 .. (num_consumers - 1)

\* produce_item(): rand() % 1000; the programs never look at the value
Items == {5, 7}

InitBC ==
    /\ NoRing
    /\ NoTsq
    /\ lang \in {"c", "go"}
    /\ num_producers \in 1 .. (MaxThreads - 1)
    /\ num_consumers \in 1 .. (MaxThreads - num_producers)
    /\ buffer_size \in 1 .. MaxBuffer
    /\ items_per_producer \in 1 .. (MaxTotal \div num_producers)
    /\ buffer = [k \in 0 .. (buffer_size - 1) |-> 0]
    /\ in = 0
    /\ out = 0
    /\ empty_slots = buffer_size
    /\ full_slots = 0
    /\ mutex_buffer = FALSE
    /\ prodPc = [p \in 0 .. (num_producers - 1) |-> "produce"]
    /\ prodI = [p \in 0 .. (num_producers - 1) |-> 0]
    /\ prodItem = [p \in 0 .. (num_producers - 1) |-> 0]
    /\ consPc = [c \in 0 .. (num_consumers - 1) |-> "wait_full"]
    /\ consItem = [c \in 0 .. (num_consumers - 1) |-> 0]
    /\ putLog = << >>
    /\ takeLog = << >>
    /\ bcMain = "join_producers"


\* (a slip: the slot is taken without the sem_wait)
ProdSemWaitSkipped(p) ==
    /\ prodPc[p] = "produce"
    /\ prodI[p] < items_per_producer
    /\ \E item \in Items : prodItem' = [prodItem EXCEPT ![p] = item]
    /\ prodPc' = [prodPc EXCEPT ![p] = "lock"]
    /\ UNCHANGED <<bcConf, bcMain, buffer, in, out, empty_slots, full_slots, mutex_buffer,
                   prodI, consPc, consItem, putLog, takeLog>>
    /\ UNCHANGED <<ringVars, tsqVars>>

\* for (i = 0; i < items_to_produce; ...) { item = produce_item(); sem_wait(&empty_slots);
ProdSemWait(p) ==
    /\ prodPc[p] = "produce"
    /\ prodI[p] < items_per_producer
    /\ SemPositive(empty_slots)
    /\ empty_slots' = empty_slots - 1
    /\ \E item \in Items : prodItem' = [prodItem EXCEPT ![p] = item]
    /\ prodPc' = [prodPc EXCEPT ![p] = "lock"]
    /\ UNCHANGED <<bcConf, bcMain, buffer, in, out, full_slots, mutex_buffer, prodI,
                   consPc, consItem, putLog, takeLog>>
    /\ UNCHANGED <<ringVars, tsqVars>>

\* loop condition false: return NULL (wg.Done())
ProdFinish(p) ==
    /\ prodPc[p] = "produce"
    /\ prodI[p] >= items_per_producer
    /\ prodPc' = [prodPc EXCEPT ![p] = "done"]
    /\ UNCHANGED <<bcConf, bcMain, buffer, in, out, empty_slots, full_slots, mutex_buffer,
                   prodI, prodItem, consPc, consItem, putLog, takeLog>>
    /\ UNCHANGED <<ringVars, tsqVars>>

\* pthread_mutex_lock(&mutex_buffer)  (b.lock.Lock() of Put)
ProdLock(p) ==
    /\ prodPc[p] = "lock"
    /\ MutexFree(mutex_buffer)
    /\ mutex_buffer' = TRUE
    /\ prodPc' = [prodPc EXCEPT ![p] = "write"]
    /\ UNCHANGED <<bcConf, bcMain, buffer, in, out, empty_slots, full_slots, prodI, prodItem,
                   consPc, consItem, putLog, takeLog>>
    /\ UNCHANGED <<ringVars, tsqVars>>

\* buffer[in] = item
ProdWrite(p) ==
    /\ prodPc[p] = "write"
    /\ buffer' = [buffer EXCEPT ![in] = prodItem[p]]
    /\ putLog' = Append(putLog, prodItem[p])
    /\ prodPc' = [prodPc EXCEPT ![p] = "advance"]
    /\ UNCHANGED <<bcConf, bcMain, in, out, empty_slots, full_slots, mutex_buffer, prodI,
                   prodItem, consPc, consItem, takeLog>>
    /\ UNCHANGED <<ringVars, tsqVars>>

\* (a slip: the write index is left where it was)
ProdAdvanceForgotten(p) ==
    /\ prodPc[p] = "advance"
    /\ mutex_buffer' = FALSE
    /\ prodPc' = [prodPc EXCEPT ![p] = "post_full"]
    /\ UNCHANGED <<bcConf, bcMain, buffer, in, out, empty_slots, full_slots, prodI, prodItem,
                   consPc, consItem, putLog, takeLog>>
    /\ UNCHANGED <<ringVars, tsqVars>>

\* in = (in + 1) % buffer_size; pthread_mutex_unlock(&mutex_buffer)
ProdAdvance(p) ==
    /\ prodPc[p] = "advance"
    /\ in' = (in + 1) % buffer_size
    /\ mutex_buffer' = FALSE
    /\ prodPc' = [prodPc EXCEPT ![p] = "post_full"]
    /\ UNCHANGED <<bcConf, bcMain, buffer, out, empty_slots, full_slots, prodI, prodItem,
                   consPc, consItem, putLog, takeLog>>
    /\ UNCHANGED <<ringVars, tsqVars>>

\* C: sem_post(&full_slots); usleep; i++
ProdSemPost(p) ==
    /\ lang = "c"
    /\ prodPc[p] = "post_full"
    /\ full_slots' = full_slots + 1
    /\ prodI' = [prodI EXCEPT ![p] = @ + 1]
    /\ prodPc' = [prodPc EXCEPT ![p] = "produce"]
    /\ UNCHANGED <<bcConf, bcMain, buffer, in, out, empty_slots, mutex_buffer, prodItem,
                   consPc, consItem, putLog, takeLog>>
    /\ UNCHANGED <<ringVars, tsqVars>>

\* C: sem_wait(&full_slots)
ConsSemWait(c) ==
    /\ lang = "c"
    /\ consPc[c] = "wait_full"
    /\ SemPositive(full_slots)
    /\ full_slots' = full_slots - 1
    /\ consPc' = [consPc EXCEPT ![c] = "lock"]
    /\ UNCHANGED <<bcConf, bcMain, buffer, in, out, empty_slots, mutex_buffer, prodPc, prodI,
                   prodItem, consItem, putLog, takeLog>>
    /\ UNCHANGED <<ringVars, tsqVars>>

\* Go: semFull = NewSemaphore(0) is a channel without buffer: the send of
\* semFull.Signal() and the receive of semFull.Wait() complete together
GoFullHandoff(p, c) ==
    /\ lang = "go"
    /\ prodPc[p] = "post_full"
    /\ consPc[c] = "wait_full"
    /\ prodI' = [prodI EXCEPT ![p] = @ + 1]
    /\ prodPc' = [prodPc EXCEPT ![p] = "produce"]
    /\ consPc' = [consPc EXCEPT ![c] = "lock"]
    /\ UNCHANGED <<bcConf, bcMain, buffer, in, out, empty_slots, full_slots, mutex_buffer,
                   prodItem, consItem, putLog, takeLog>>
    /\ UNCHANGED <<ringVars, tsqVars>>

\* pthread_mutex_lock(&mutex_buffer)  (b.lock.Lock() of Get)
ConsLock(c) ==
    /\ consPc[c] = "lock"
    /\ MutexFree(mutex_buffer)
    /\ mutex_buffer' = TRUE
    /\ consPc' = [consPc EXCEPT ![c] = "read"]
    /\ UNCHANGED <<bcConf, bcMain, buffer, in, out, empty_slots, full_slots, prodPc, prodI,
                   prodItem, consItem, putLog, takeLog>>
    /\ UNCHANGED <<ringVars, tsqVars>>

\* int item = buffer[out]
ConsRead(c) ==
    /\ consPc[c] = "read"
    /\ consItem' = [consItem EXCEPT ![c] = buffer[out]]
    /\ takeLog' = Append(takeLog, buffer[out])
    /\ consPc' = [consPc EXCEPT ![c] = "advance"]
    /\ UNCHANGED <<bcConf, bcMain, buffer, in, out, empty_slots, full_slots, mutex_buffer,
                   prodPc, prodI, prodItem, putLog>>
    /\ UNCHANGED <<ringVars, tsqVars>>

\* out = (out + 1) % buffer_size; pthread_mutex_unlock(&mutex_buffer)
ConsAdvance(c) ==
    /\ consPc[c] = "advance"
    /\ out' = (out + 1) % buffer_size
    /\ mutex_buffer' = FALSE
    /\ consPc' = [consPc EXCEPT ![c] = "post_empty"]
    /\ UNCHANGED <<bcConf, bcMain, buffer, in, empty_slots, full_slots, prodPc, prodI,
                   prodItem, consItem, putLog, takeLog>>
    /\ UNCHANGED <<ringVars, tsqVars>>

\* (a slip: the consumer goes on without the sem_post)
ConsSemPostForgotten(c) ==
    /\ consPc[c] = "post_empty"
    /\ consPc' = [consPc EXCEPT ![c] = "wait_full"]
    /\ UNCHANGED <<bcConf, bcMain, buffer, in, out, empty_slots, full_slots, mutex_buffer, prodPc,
                   prodI, prodItem, consItem, putLog, takeLog>>
    /\ UNCHANGED <<ringVars, tsqVars>>

\* sem_post(&empty_slots); consume_item(item); back to the top of while (1)
\* Go: semEmpty is a channel with buffer_size places, a send blocks while it is full
ConsSemPost(c) ==
    /\ consPc[c] = "post_empty"
    /\ lang = "go" => empty_slots < buffer_size
    /\ empty_slots' = empty_slots + 1
    /\ consPc' = [consPc EXCEPT ![c] = "wait_full"]
    /\ UNCHANGED <<bcConf, bcMain, buffer, in, out, full_slots, mutex_buffer, prodPc, prodI,
                   prodItem, consItem, putLog, takeLog>>
    /\ UNCHANGED <<ringVars, tsqVars>>

producer(p) ==
    /\ p \in Producers
    /\  \/ ProdSemWait(p)
        \/ ProdFinish(p)
        \/ ProdLock(p)
        \/ ProdWrite(p)
        \/ ProdAdvance(p)
        \/ ProdSemPost(p)
        \/ \E c \in Consumers : GoFullHandoff(p, c)

consumer(c) ==
    /\ c \in Consumers
    /\  \/ ConsSemWait(c)
        \/ ConsLock(c)
        \/ ConsRead(c)
        \/ ConsAdvance(c)
        \/ ConsSemPost(c)
        \/ \E p \in Producers : GoFullHandoff(p, c)

NextBC ==
    \/ \E p \in Producers : ProdSemWait(p)
    \/ \E p \in Producers : ProdFinish(p)
    \/ \E p \in Producers : ProdLock(p)
    \/ \E p \in Producers : ProdWrite(p)
    \/ \E p \in Producers : ProdAdvance(p)
    \/ \E p \in Producers : ProdSemPost(p)
    \/ \E p \in Producers, c \in Consumers : GoFullHandoff(p, c)
    \/ \E c \in Consumers : ConsSemWait(c)
    \/ \E c \in Consumers : ConsLock(c)
    \/ \E c \in Consumers : ConsRead(c)
    \/ \E c \in Consumers : ConsAdvance(c)
    \/ \E c \in Consumers : ConsSemPost(c)

SpecBC == InitBC /\ [][NextBC]_vars

(***************************************************************************)
(* main of producer_consumer: the threads run until the process ends.      *)
(***************************************************************************)
BCProducersJoined == \A p \in Producers : prodPc[p] = "done"

BCEnded == bcMain \in {"exited", "fatal"}

\* Go: the counter of wg: wg.Add(1) before every go consumer(...) and every
\* go producer(...); only a producer ever returns and runs its wg.Done()
WaitGroupCount ==
    Cardinality({p \in Producers : prodPc[p] # "done"}) + num_consumers

\* Go: wg.Wait() returns when the counter is zero
BCMainWaitReturns ==
    /\ lang = "go"
    /\ bcMain = "join_producers"
    /\ WaitGroupCount = 0
    /\ bcMain' = "sleep"
    /\ UNCHANGED <<bcConf, buffer, in, out, empty_slots, full_slots, mutex_buffer,
                   prodPc, prodI, prodItem, consPc, consItem, putLog, takeLog>>
    /\ UNCHANGED <<ringVars, tsqVars>>

\* for (i < num_producers) pthread_join(producers[i], NULL);
BCMainJoinProducers ==
    /\ lang = "c"
    /\ bcMain = "join_producers"
    /\ BCProducersJoined
    /\ bcMain' = "sleep"
    /\ UNCHANGED <<bcConf, buffer, in, out, empty_slots, full_slots, mutex_buffer,
                   prodPc, prodI, prodItem, consPc, consItem, putLog, takeLog>>
    /\ UNCHANGED <<ringVars, tsqVars>>

\* sleep(2): a delay, no synchronisation with the consumers
BCMainSleep ==
    /\ bcMain = "sleep"
    /\ bcMain' = "destroy"
    /\ UNCHANGED <<bcConf, buffer, in, out, empty_slots, full_slots, mutex_buffer,
                   prodPc, prodI, prodItem, consPc, consItem, putLog, takeLog>>
    /\ UNCHANGED <<ringVars, tsqVars>>

\* printf; sem_destroy x 2; pthread_mutex_destroy; free(buffer); return 0:
\* the process ends and takes the consumer threads with it
BCMainExit ==
    /\ bcMain = "destroy"
    /\ bcMain' = "exited"
    /\ UNCHANGED <<bcConf, buffer, in, out, empty_slots, full_slots, mutex_buffer,
                   prodPc, prodI, prodItem, consPc, consItem, putLog, takeLog>>
    /\ UNCHANGED <<ringVars, tsqVars>>

\* Go: wg.Wait() also counts the consumers, which never call wg.Done(); once
\* the producers are done and every consumer is blocked in semFull.Wait() the
\* runtime ends the program with "all goroutines are asleep - deadlock!"
BCMainAllAsleep ==
    /\ lang = "go"
    /\ bcMain = "join_producers"
    /\ WaitGroupCount > 0
    /\ ~ENABLED NextBC
    /\ bcMain' = "fatal"
    /\ UNCHANGED <<bcConf, buffer, in, out, empty_slots, full_slots, mutex_buffer,
                   prodPc, prodI, prodItem, consPc, consItem, putLog, takeLog>>
    /\ UNCHANGED <<ringVars, tsqVars>>

bc_main ==
    \/ BCMainJoinProducers
    \/ BCMainWaitReturns
    \/ BCMainSleep
    \/ BCMainExit
    \/ BCMainAllAsleep

NextBCRun ==
    \/ ~BCEnded /\ NextBC
    \/ BCMainJoinProducers
    \/ BCMainSleep
    \/ BCMainExit
    \/ BCMainAllAsleep

SpecBCRun == InitBC /\ [][NextBCRun]_vars

(***************************************************************************)
(* MonitorQueue: tsqueue.c (tsqueue.go keeps the same protocol on a slice)  *)
(***************************************************************************)
QProducers == 0 .. (tsq_producers - 1)
QConsumers == 0 .. (tsq_consumers - 1)

\* int total_items = num_producers * items_per_producer
total_items == tsq_producers * tsq_items

\* int item = args->producer_id * 1000 + i
ItemOf(p, i) == p * 1000 + i

\* the values of the list from node n on, following Node.next
RECURSIVE ListFrom(_)
ListFrom(n) ==
    IF n = NULL \/ n \notin DOMAIN nextNode THEN << >>
    ELSE <<n>> \o ListFrom(nextNode[n])

\* the content of the queue as dequeue would walk it
QueueSeq == ListFrom(head)

InitTsq ==
    /\ NoRing
    /\ NoBC
    /\ lang \in {"c", "go"}
    /\ tsq_producers \in 1 .. (MaxThreads - 1)
    /\ tsq_consumers \in 1 .. (MaxThreads - tsq_producers)
    /\ tsq_items \in 1 .. (MaxTotal \div tsq_producers)
    /\ head = NULL
    /\ tail = NULL
    /\ nextNode = << >>
    /\ lock = FALSE
    /\ not_empty = {}
    /\ count_lock = FALSE
    /\ consumed_count = 0
    /\ qpPc = [p \in 0 .. (tsq_producers - 1) |-> "produce"]
    /\ qpI = [p \in 0 .. (tsq_producers - 1) |-> 0]
    /\ qcPc = [c \in 0 .. (tsq_consumers - 1) |-> "check_lock"]
    /\ qcItem = [c \in 0 .. (tsq_consumers - 1) |-> 0]
    /\ mainPc = IF lang = "c" THEN "join_producers" ELSE "wait_all"
    /\ enqLog = << >>
    /\ deqLog = << >>

\* ---- producer_thread / enqueue ----

\* for (i = 0; i < items_to_produce; ...) { item = ...; enqueue: malloc, pthread_mutex_lock
EnqLock(p) ==
    /\ qpPc[p] = "produce"
    /\ qpI[p] < tsq_items
    /\ MutexFree(lock)
    /\ lock' = TRUE
    /\ qpPc' = [qpPc EXCEPT ![p] = "link"]
    /\ UNCHANGED <<tsqConf, head, tail, nextNode, not_empty, count_lock, consumed_count,
                   qpI, qcPc, qcItem, mainPc, enqLog, deqLog>>
    /\ UNCHANGED <<ringVars, bcVars>>

\* loop condition false: return NULL
QProdFinish(p) ==
    /\ qpPc[p] = "produce"
    /\ qpI[p] >= tsq_items
    /\ qpPc' = [qpPc EXCEPT ![p] = "done"]
    /\ UNCHANGED <<tsqConf, head, tail, nextNode, lock, not_empty, count_lock,
                   consumed_count, qpI, qcPc, qcItem, mainPc, enqLog, deqLog>>
    /\ UNCHANGED <<ringVars, bcVars>>

\* q->head after enqueue has linked node n: n when the queue was empty
HeadAlwaysNew(n) == n
HeadAfterLink(n) == IF tail = NULL THEN n ELSE head

\* new_node->next = NULL; if (q->tail == NULL) head = tail = new_node;
\* else { q->tail->next = new_node; q->tail = new_node; }
EnqLink(p) ==
    /\ qpPc[p] = "link"
    /\ LET n == ItemOf(p, qpI[p]) IN
        /\ head' = HeadAfterLink(n)
        /\ nextNode' = IF tail = NULL
                       THEN (n :> NULL) @@ nextNode
                       ELSE (n :> NULL) @@ [nextNode EXCEPT ![tail] = n]
        /\ tail' = n
        /\ enqLog' = Append(enqLog, n)
    /\ qpPc' = [qpPc EXCEPT ![p] = "signal"]
    /\ UNCHANGED <<tsqConf, lock, not_empty, count_lock, consumed_count, qpI, qcPc,
                   qcItem, mainPc, deqLog>>
    /\ UNCHANGED <<ringVars, bcVars>>

\* what pthread_cond_signal does to the set of blocked threads: nothing when
\* nobody is blocked, else it unblocks at least one of them (Go's Cond.Signal
\* unblocks one)
SignalLost(waiting) == { {} }
SignalOutcomes(waiting) ==
    IF waiting = {} THEN { {} }
    ELSE IF lang = "go" THEN { {c} : c \in waiting }
    ELSE { w \in SUBSET waiting : w # {} }

\* the position of a consumer that a signal, a broadcast or a spurious wake-up
\* has unblocked: it has to get the mutex back before pthread_cond_wait returns
Unblock(pcs, woken) == [c \in DOMAIN pcs |-> IF c \in woken THEN "relock" ELSE pcs[c]]

\* pthread_cond_signal(&q->not_empty)
EnqSignal(p) ==
    /\ qpPc[p] = "signal"
    /\ \E woken \in SignalOutcomes(not_empty) :
        /\ not_empty' = not_empty \ woken
        /\ qcPc' = Unblock(qcPc, woken)
    /\ qpPc' = [qpPc EXCEPT ![p] = "unlock"]
    /\ UNCHANGED <<tsqConf, head, tail, nextNode, lock, count_lock, consumed_count, qpI,
                   qcItem, mainPc, enqLog, deqLog>>
    /\ UNCHANGED <<ringVars, bcVars>>

\* pthread_mutex_unlock(&q->lock); return; usleep; i++
EnqUnlock(p) ==
    /\ qpPc[p] = "unlock"
    /\ lock' = FALSE
    /\ qpI' = [qpI EXCEPT ![p] = @ + 1]
    /\ qpPc' = [qpPc EXCEPT ![p] = "produce"]
    /\ UNCHANGED <<tsqConf, head, tail, nextNode, not_empty, count_lock, consumed_count,
                   qcPc, qcItem, mainPc, enqLog, deqLog>>
    /\ UNCHANGED <<ringVars, bcVars>>

\* ---- consumer_thread / dequeue ----

\* while (1) { pthread_mutex_lock(args->count_lock);
CountLock(c) ==
    /\ qcPc[c] = "check_lock"
    /\ MutexFree(count_lock)
    /\ count_lock' = TRUE
    /\ qcPc' = [qcPc EXCEPT ![c] = "check"]
    /\ UNCHANGED <<tsqConf, head, tail, nextNode, lock, not_empty, consumed_count, qpPc,
                   qpI, qcItem, mainPc, enqLog, deqLog>>
    /\ UNCHANGED <<ringVars, bcVars>>

\* if (*consumed_count >= total_items) { unlock; break; } unlock;
CountCheck(c) ==
    /\ qcPc[c] = "check"
    /\ count_lock' = FALSE
    /\ qcPc' = [qcPc EXCEPT ![c] =
                    IF consumed_count >= total_items THEN "done" ELSE "deq_lock"]
    /\ UNCHANGED <<tsqConf, head, tail, nextNode, lock, not_empty, consumed_count, qpPc,
                   qpI, qcItem, mainPc, enqLog, deqLog>>
    /\ UNCHANGED <<ringVars, bcVars>>

\* dequeue: pthread_mutex_lock(&q->lock)
DeqLock(c) ==
    /\ qcPc[c] = "deq_lock"
    /\ MutexFree(lock)
    /\ lock' = TRUE
    /\ qcPc' = [qcPc EXCEPT ![c] = "deq_test"]
    /\ UNCHANGED <<tsqConf, head, tail, nextNode, not_empty, count_lock, consumed_count,
                   qpPc, qpI, qcItem, mainPc, enqLog, deqLog>>
    /\ UNCHANGED <<ringVars, bcVars>>

\* while (q->head == NULL) pthread_cond_wait(&q->not_empty, &q->lock);
\* the wait releases the mutex and blocks the caller in one step
LockKeptWhileWaiting == TRUE
LockWhileWaiting == FALSE

DeqTest(c) ==
    /\ qcPc[c] = "deq_test"
    /\ IF head = NULL
       THEN /\ lock' = LockWhileWaiting
            /\ not_empty' = not_empty \cup {c}
            /\ qcPc' = [qcPc EXCEPT ![c] = "waiting"]
       ELSE /\ UNCHANGED <<lock, not_empty>>
            /\ qcPc' = [qcPc EXCEPT ![c] = "deq_remove"]
    /\ UNCHANGED <<tsqConf, head, tail, nextNode, count_lock, consumed_count, qpPc, qpI,
                   qcItem, mainPc, enqLog, deqLog>>
    /\ UNCHANGED <<ringVars, bcVars>>

\* where dequeue continues once pthread_cond_wait has returned: the while test
AfterWaitNoRecheck == "deq_remove"
AfterWait == "deq_test"

\* pthread_cond_wait returns: the unblocked consumer has the mutex again
DeqRelock(c) ==
    /\ qcPc[c] = "relock"
    /\ MutexFree(lock)
    /\ lock' = TRUE
    /\ qcPc' = [qcPc EXCEPT ![c] = AfterWait]
    /\ UNCHANGED <<tsqConf, head, tail, nextNode, not_empty, count_lock, consumed_count,
                   qpPc, qpI, qcItem, mainPc, enqLog, deqLog>>
    /\ UNCHANGED <<ringVars, bcVars>>

\* POSIX lets pthread_cond_wait return without a signal (spurious wake-up);
\* Go's Cond.Wait returns only after a Signal or a Broadcast
SpuriousWake(c) ==
    /\ lang = "c"
    /\ qcPc[c] = "waiting"
    /\ c \in not_empty
    /\ not_empty' = not_empty \ {c}
    /\ qcPc' = Unblock(qcPc, {c})
    /\ UNCHANGED <<tsqConf, head, tail, nextNode, lock, count_lock, consumed_count, qpPc,
                   qpI, qcItem, mainPc, enqLog, deqLog>>
    /\ UNCHANGED <<ringVars, bcVars>>

\* q->tail after dequeue has unlinked node h: NULL when the queue became empty
TailKept(h) == tail
TailAfterRemove(h) == IF nextNode[h] = NULL THEN NULL ELSE tail

\* to_free = q->head; result = to_free->value; q->head = q->head->next;
\* if (q->head == NULL) q->tail = NULL; free(to_free);
\* with q->head == NULL the read of to_free->value is a NULL dereference: the
\* value read is anything (NULL stands for it) and the list is left as it is
DeqRemove(c) ==
    /\ qcPc[c] = "deq_remove"
    /\ IF head = NULL
       THEN /\ qcItem' = [qcItem EXCEPT ![c] = NULL]
            /\ deqLog' = Append(deqLog, NULL)
            /\ UNCHANGED <<head, tail, nextNode>>
       ELSE /\ qcItem' = [qcItem EXCEPT ![c] = head]
            /\ deqLog' = Append(deqLog, head)
            /\ head' = nextNode[head]
            /\ tail' = TailAfterRemove(head)
            /\ nextNode' = [n \in (DOMAIN nextNode) \ {head} |-> nextNode[n]]
    /\ qcPc' = [qcPc EXCEPT ![c] = "deq_unlock"]
    /\ UNCHANGED <<tsqConf, lock, not_empty, count_lock, consumed_count, qpPc, qpI,
                   mainPc, enqLog>>
    /\ UNCHANGED <<ringVars, bcVars>>

\* pthread_mutex_unlock(&q->lock); return result;
DeqUnlock(c) ==
    /\ qcPc[c] = "deq_unlock"
    /\ lock' = FALSE
    /\ qcPc' = [qcPc EXCEPT ![c] = "count_lock"]
    /\ UNCHANGED <<tsqConf, head, tail, nextNode, not_empty, count_lock, consumed_count,
                   qpPc, qpI, qcItem, mainPc, enqLog, deqLog>>
    /\ UNCHANGED <<ringVars, bcVars>>

\* pthread_mutex_lock(args->count_lock);
CountLock2(c) ==
    /\ qcPc[c] = "count_lock"
    /\ MutexFree(count_lock)
    /\ count_lock' = TRUE
    /\ qcPc' = [qcPc EXCEPT ![c] = "count"]
    /\ UNCHANGED <<tsqConf, head, tail, nextNode, lock, not_empty, consumed_count, qpPc,
                   qpI, qcItem, mainPc, enqLog, deqLog>>
    /\ UNCHANGED <<ringVars, bcVars>>

\* (*consumed_count)++; unlock; printf; usleep; back to the top of while (1)
CountIncr(c) ==
    /\ qcPc[c] = "count"
    /\ consumed_count' = consumed_count + 1
    /\ count_lock' = FALSE
    /\ qcPc' = [qcPc EXCEPT ![c] = "check_lock"]
    /\ UNCHANGED <<tsqConf, head, tail, nextNode, lock, not_empty, qpPc, qpI, qcItem,
                   mainPc, enqLog, deqLog>>
    /\ UNCHANGED <<ringVars, bcVars>>

\* ---- main ----

\* for (...) pthread_join(producers[i], NULL);
MainJoinProducers ==
    /\ mainPc = "join_producers"
    /\ \A p \in QProducers : qpPc[p] = "done"
    /\ mainPc' = "broadcast"
    /\ UNCHANGED <<tsqConf, head, tail, nextNode, lock, not_empty, count_lock,
                   consumed_count, qpPc, qpI, qcPc, qcItem, enqLog, deqLog>>
    /\ UNCHANGED <<ringVars, bcVars>>

\* pthread_cond_broadcast(&queue.not_empty);
MainBroadcast ==
    /\ mainPc = "broadcast"
    /\ not_empty' = {}
    /\ qcPc' = Unblock(qcPc, not_empty)
    /\ mainPc' = "join_consumers"
    /\ UNCHANGED <<tsqConf, head, tail, nextNode, lock, count_lock, consumed_count, qpPc,
                   qpI, qcItem, enqLog, deqLog>>
    /\ UNCHANGED <<ringVars, bcVars>>

\* for (...) pthread_join(consumers[i], NULL); destroy; printf; return 0;
MainJoinConsumers ==
    /\ mainPc = "join_consumers"
    /\ \A c \in QConsumers : qcPc[c] = "done"
    /\ mainPc' = "done"
    /\ UNCHANGED <<tsqConf, head, tail, nextNode, lock, not_empty, count_lock,
                   consumed_count, qpPc, qpI, qcPc, qcItem, enqLog, deqLog>>
    /\ UNCHANGED <<ringVars, bcVars>>

\* tsqueue.go: wg.Wait() for the producers and the consumers; Println
MainWaitAll ==
    /\ mainPc = "wait_all"
    /\ \A p \in QProducers : qpPc[p] = "done"
    /\ \A c \in QConsumers : qcPc[c] = "done"
    /\ mainPc' = "done"
    /\ UNCHANGED <<tsqConf, head, tail, nextNode, lock, not_empty, count_lock,
                   consumed_count, qpPc, qpI, qcPc, qcItem, enqLog, deqLog>>
    /\ UNCHANGED <<ringVars, bcVars>>

producer_thread(p) ==
    /\ p \in QProducers
    /\  \/ EnqLock(p)
        \/ QProdFinish(p)
        \/ EnqLink(p)
        \/ EnqSignal(p)
        \/ EnqUnlock(p)

consumer_thread(c) ==
    /\ c \in QConsumers
    /\  \/ CountLock(c)
        \/ CountCheck(c)
        \/ DeqLock(c)
        \/ DeqTest(c)
        \/ DeqRelock(c)
        \/ DeqRemove(c)
        \/ DeqUnlock(c)
        \/ CountLock2(c)
        \/ CountIncr(c)

tsq_main == MainJoinProducers \/ MainBroadcast \/ MainJoinConsumers \/ MainWaitAll

NextTsq ==
    \/ \E p \in QProducers : EnqLock(p)
    \/ \E p \in QProducers : QProdFinish(p)
    \/ \E p \in QProducers : EnqLink(p)
    \/ \E p \in QProducers : EnqSignal(p)
    \/ \E p \in QProducers : EnqUnlock(p)
    \/ \E c \in QConsumers : CountLock(c)
    \/ \E c \in QConsumers : CountCheck(c)
    \/ \E c \in QConsumers : DeqLock(c)
    \/ \E c \in QConsumers : DeqTest(c)
    \/ \E c \in QConsumers : DeqRelock(c)
    \/ \E c \in QConsumers : SpuriousWake(c)
    \/ \E c \in QConsumers : DeqRemove(c)
    \/ \E c \in QConsumers : DeqUnlock(c)
    \/ \E c \in QConsumers : CountLock2(c)
    \/ \E c \in QConsumers : CountIncr(c)
    \/ MainJoinProducers
    \/ MainBroadcast
    \/ MainJoinConsumers
    \/ MainWaitAll

SpecTsq == InitTsq /\ [][NextTsq]_vars

(***************************************************************************)
(* Fairness: every thread is an OS thread (a goroutine) that the scheduler  *)
(* keeps running while it can take a step.  Spurious wake-ups are allowed   *)
(* but never required.                                                      *)
(***************************************************************************)
FairTsq ==
    /\ \A p \in 0 .. (MaxThreads - 1) : WF_vars(producer_thread(p))
    /\ \A c \in 0 .. (MaxThreads - 1) : WF_vars(consumer_thread(c))
    /\ WF_vars(tsq_main)

FairSpecTsq == SpecTsq /\ FairTsq

\* both containers: the bounded buffer or the queue is the program that runs
InitStore == InitBC \/ InitTsq

NextStore == NextBC \/ NextTsq

SpecStore == InitStore /\ [][NextStore]_vars

(***************************************************************************)
(* Properties                                                               *)
(***************************************************************************)
IsPrefix(s, t) == Len(s) <= Len(t) /\ SubSeq(t, 1, Len(s)) = s

\* the forks a philosopher holds, by its position in philosopher()
Holds(p) ==
    CASE ppc[p] = "second" -> {FirstFork(p)}
      [] ppc[p] \in {"eat", "unlock_left"} -> {left(p), right(p)}
      [] ppc[p] = "unlock_right" -> {right(p)}
      [] OTHER -> {}

HoldersOf(f) == {p \in Phils : f \in Holds(p)}

\* C1: every fork is held by at most one philosopher, a fork is locked exactly
\* when somebody holds it, and two neighbours never eat at the same time.
C1_ForkMutualExclusion ==
    /\ \A f \in DOMAIN forks : Cardinality(HoldersOf(f)) <= 1
    /\ \A f \in DOMAIN forks : forks[f] <=> HoldersOf(f) # {}
    /\ \A p \in Phils : ~(ppc[p] = "eat" /\ ppc[right(p)] = "eat")

\* a philosopher eats while a neighbour is stopped at a fork they share
C1_Witness ==
    \E p \in Phils, q \in Phils :
        /\ ppc[p] = "eat"
        /\ ppc[q] = "second"
        /\ SecondFork(q) \in Holds(p)

RingAllDone ==
    \A p \in Phils : ppc[p] = "done" /\ eaten[p] = cycles_per_philosopher

\* C2: no reachable state of the ring is a deadlock (some philosopher can step
\* unless all have finished), and under fair scheduling every philosopher ends
\* in its terminal state having eaten exactly cycles_per_philosopher times.
C2_RingDeadlockFree ==
    /\ [](RingAllDone \/ ENABLED NextRing)
    /\ <>[]RingAllDone

\* the largest ring of the model has finished: 3 philosophers, 2 meals each
C2_Witness ==
    /\ RingAllDone
    /\ num_philosophers >= 3
    /\ cycles_per_philosopher >= 2
    /\ \A p \in Phils : eaten[p] >= 2

\* between sem_wait(&waiter) and sem_post(&waiter)
Admitted == {p \in Phils : ppc[p] \in {"first", "second", "eat", "unlock_left",
                                        "unlock_right", "post"}}

\* every philosopher holds exactly one fork and waits for its second one
CircularWait == \A p \in Phils : ppc[p] = "second" /\ Cardinality(Holds(p)) = 1

\* C6: at most N-1 philosophers are between taking and returning the waiter's
\* ticket, so one is always outside, and the circular wait is unreachable.
C6_AdmissionControl ==
    /\ Cardinality(Admitted) <= num_philosophers - 1
    /\ Phils \ Admitted # {}
    /\ ~CircularWait

\* N-1 philosophers are admitted and the last one is stopped at the waiter
C6_Witness ==
    /\ num_philosophers >= 3
    /\ Cardinality(Admitted) = num_philosophers - 1
    /\ waiter = 0
    /\ \E p \in Phils : ppc[p] = "think" /\ cyc[p] < cycles_per_philosopher

\* slots written and not yet read: completed writes minus completed reads
occupied == Len(putLog) - Len(takeLog)

\* C3: 0 <= occupied <= capacity in every state; a producer about to write has
\* a free slot in front of it and a consumer about to read has an unread one.
C3_CapacityInvariant ==
    /\ 0 <= occupied
    /\ occupied <= buffer_size
    /\ \A p \in Producers : prodPc[p] = "write" => occupied < buffer_size
    /\ \A c \in Consumers : consPc[c] = "read" => occupied > 0

\* the buffer is full and a producer with items left is stopped at sem_wait
C3_Witness ==
    /\ buffer_size >= 2
    /\ occupied = buffer_size
    /\ empty_slots = 0
    /\ \E p \in Producers : prodPc[p] = "produce" /\ prodI[p] < items_per_producer

\* threads between their semaphore decrement and their semaphore increment
ProducersInFlight ==
    {p \in Producers : prodPc[p] \in {"lock", "write", "advance", "post_full"}}

ConsumersInFlight ==
    {c \in Consumers : consPc[c] \in {"lock", "read", "advance", "post_empty"}}

InFlight == Cardinality(ProducersInFlight) + Cardinality(ConsumersInFlight)

\* C7 as stated: in the C program full_slots + empty_slots equals the capacity
\* in every state.
C7_SemaphoreSumAlways == lang = "c" => full_slots + empty_slots = buffer_size

\* C7 as amended: the two semaphore values and the threads that are between
\* their decrement and their increment add up to the capacity; the sum of the
\* two values alone never exceeds the capacity and equals it when no thread is
\* in between.
C7_SemaphoreSumInFlight ==
    /\ full_slots + empty_slots + InFlight = buffer_size
    /\ full_slots + empty_slots <= buffer_size
    /\ full_slots >= 0
    /\ empty_slots >= 0

\* a producer has taken an empty slot and has not yet posted a full one
C7_Witness ==
    /\ lang = "c"
    /\ \E p \in Producers : prodPc[p] = "write"
    /\ \E c \in Consumers : consPc[c] = "post_empty"
    /\ full_slots + empty_slots = buffer_size - 2

\* C8: the items leave the buffer in the order of their writes; a consumer about
\* to read finds at buffer[out] the oldest item written and not yet read; a
\* producer about to write does not overwrite an unread slot.  With capacity 1,
\* one producer writing 5 then 7 and one consumer, the consumer reads 5 then 7.
C8_BufferOrder ==
    /\ IsPrefix(takeLog, putLog)
    /\ \A c \in Consumers : consPc[c] = "read" =>
            /\ Len(takeLog) < Len(putLog)
            /\ buffer[out] = putLog[Len(takeLog) + 1]
    /\ \A p \in Producers : prodPc[p] = "write" => occupied < buffer_size
    /\ (buffer_size = 1 /\ num_producers = 1 /\ num_consumers = 1
            /\ putLog = <<5, 7>> /\ Len(takeLog) = 2) => takeLog = <<5, 7>>

\* capacity 1, one producer, one consumer: 5 and 7 written, both read
C8_Witness ==
    /\ buffer_size = 1
    /\ num_producers = 1
    /\ num_consumers = 1
    /\ putLog = <<5, 7>>
    /\ takeLog = <<5, 7>>

Range(q) == {q[k] : k \in DOMAIN q}

\* the consumer holds the value that its last dequeue returned
HasResult(c) == qcPc[c] \in {"deq_unlock", "count_lock", "count"}

\* C4: the values removed by dequeue, in the order of the removals, are a prefix
\* of the values appended by enqueue, in the order of the appends; a single
\* consumer receives as its k-th value the k-th value enqueued.
C4_QueueFifo ==
    /\ IsPrefix(deqLog, enqLog)
    /\ tsq_consumers = 1 =>
            \A c \in QConsumers : HasResult(c) =>
                /\ Len(deqLog) >= 1
                /\ qcItem[c] = enqLog[Len(deqLog)]

\* two producers have enqueued, the single consumer has received both values
C4_Witness ==
    /\ tsq_producers = 2
    /\ tsq_consumers = 1
    /\ Len(enqLog) >= 2
    /\ Len(deqLog) = 2
    /\ HasResult(0)

BCProducersDone == \A p \in Producers : prodPc[p] = "done"

TsqProducersDone == \A p \in QProducers : qpPc[p] = "done"

\* C5: nothing is lost or duplicated.  Bounded buffer: the i-th item read is the
\* i-th item written; once the producers are done and every slot is free again
\* all items written have been read.  Queue: every value is enqueued once, the
\* values enqueued are those dequeued followed by those still linked in the
\* list; once the producers are done and the list is empty, all have been
\* dequeued.
C5_Conservation ==
    /\ IsPrefix(takeLog, putLog)
    /\ (BCProducersDone /\ empty_slots = buffer_size) =>
            /\ Len(takeLog) = Len(putLog)
            /\ Len(putLog) = num_producers * items_per_producer
    /\ Cardinality(Range(enqLog)) = Len(enqLog)
    /\ enqLog = deqLog \o QueueSeq
    /\ (TsqProducersDone /\ head = NULL) =>
            /\ deqLog = enqLog
            /\ Len(enqLog) = total_items

\* the producers are done and the container has been drained, in either program
C5_Witness ==
    \/ /\ num_producers = 2
       /\ BCProducersDone
       /\ empty_slots = buffer_size
       /\ Len(takeLog) = 2
    \/ /\ tsq_producers = 2
       /\ TsqProducersDone
       /\ head = NULL
       /\ Len(deqLog) = 2

\* C9: dequeue unlinks a node only from a non-empty list: a consumer past the
\* while test finds q->head set, no NULL dereference has been logged, at most
\* one consumer per linked node is past the test, and the dequeues completed
\* never outnumber the enqueues completed.
C9_DequeueGuard ==
    /\ \A c \in QConsumers : qcPc[c] = "deq_remove" => head # NULL
    /\ Cardinality({c \in QConsumers : qcPc[c] = "deq_remove"}) <= Len(QueueSeq)
    /\ NULL \notin Range(deqLog)
    /\ Len(deqLog) <= Len(enqLog)

\* one consumer has taken the only item, another one has been woken and finds
\* the list empty
C9_Witness ==
    /\ tsq_consumers = 2
    /\ head = NULL
    /\ \E c \in QConsumers : qcPc[c] = "deq_unlock"
    /\ \E c \in QConsumers : qcPc[c] = "relock"

\* a producer is inside enqueue
InEnqueue(p) == qpPc[p] \in {"link", "signal", "unlock"}

\* C10: enqueue never waits for the condition or for room: inside enqueue the
\* producer can always take its next step, and it can enter as soon as the mutex
\* is free; a signal sent while consumers are blocked unblocks at least one;
\* under fair scheduling no consumer stays blocked in the wait for ever while
\* the list stays non-empty.
C10_EnqueueWakes ==
    /\ [](\A p \in QProducers :
            /\ InEnqueue(p) => ENABLED producer_thread(p)
            /\ (qpPc[p] = "produce" /\ ~lock) => ENABLED producer_thread(p))
    /\ [][\A p \in QProducers :
            (qpPc[p] = "signal" /\ qpPc'[p] = "unlock" /\ not_empty # {}) =>
                (not_empty' \subseteq not_empty /\ not_empty' # not_empty)]_vars
    /\ \A c \in 0 .. (MaxThreads - 1) :
            []<>~(c \in QConsumers /\ c \in not_empty /\ head # NULL)

\* an enqueue has just signalled: a consumer that was blocked is unblocked and
\* the list is not empty
C10_Witness ==
    /\ \E p \in QProducers : qpPc[p] = "unlock"
    /\ \E c \in QConsumers : qcPc[c] = "relock"
    /\ head # NULL

TsqConsumersDone == \A c \in QConsumers : qcPc[c] = "done"

TsqProgress ==
    \/ \E p \in QProducers : producer_thread(p)
    \/ \E c \in QConsumers : consumer_thread(c)
    \/ tsq_main

\* C11: once the target count has been consumed every consumer thread exits and
\* main's wait completes; no consumer remains blocked forever in dequeue.  In
\* finite-run form: in every reachable state either all consumers have exited
\* and main has reached its final message, or some thread of the program can
\* still take a step of its code (a spurious wake-up is not such a step: the
\* woken consumer finds the queue empty and waits again).
C11_ConsumersTerminate ==
    (TsqConsumersDone /\ mainPc = "done") \/ ENABLED TsqProgress

Requests(p) == p \in Phils /\ ppc[p] = "think" /\ cyc[p] < cycles_per_philosopher

Eats(p) == p \in Phils /\ ppc[p] = "eat"

\* philosopher p has requested admission and has not yet eaten in this cycle
Hungry(p) == Requests(p) \/ (p \in Phils /\ ppc[p] \in {"first", "second"})

C13_RunToCompletion ==
    BCEnded => /\ Len(takeLog) = num_producers * items_per_producer
               /\ occupied = 0
               /\ \A c \in Consumers : consPc[c] = "wait_full"

\* sem_post(&full_slots) / semFull.Signal() of producer p can be performed now
FullPostReady(p) == ENABLED (ProdSemPost(p) \/ \E c \in Consumers : GoFullHandoff(p, c))

\* sem_post(&empty_slots) / semEmpty.Signal() of consumer c can be performed now
EmptyPostReady(c) == ENABLED ConsSemPost(c)

\* C14: in every implementation and every reachable state, incrementing a
\* counting semaphore succeeds without blocking the caller: a producer that has
\* written its item can signal availability at once, and so can a consumer
\* that has read one signal the free slot.
C14_IncrementNeverBlocks ==
    /\ \A p \in Producers : prodPc[p] = "post_full" => FullPostReady(p)
    /\ \A c \in Consumers : consPc[c] = "post_empty" => EmptyPostReady(c)

\* the three programs together
InitAll == InitRing \/ InitBC \/ InitTsq

NextAll == NextRing \/ NextBC \/ NextTsq

SpecAll == InitAll /\ [][NextAll]_vars

\* the threads inside the section protected by mutex_buffer
BufferHolders ==
    {<<"producer", p>> : p \in {q \in Producers : prodPc[q] \in {"write", "advance"}}}
    \cup {<<"consumer", c>> : c \in {d \in Consumers : consPc[d] \in {"read", "advance"}}}

\* the threads inside the section protected by q->lock
LockHolders ==
    {<<"producer", p>> : p \in {q \in QProducers : qpPc[q] \in {"link", "signal", "unlock"}}}
    \cup {<<"consumer", c>> :
            c \in {d \in QConsumers : qcPc[d] \in {"deq_test", "deq_remove", "deq_unlock"}}}

\* the threads inside the section protected by count_lock
CountLockHolders == {c \in QConsumers : qcPc[c] \in {"check", "count"}}

\* a philosopher that holds a fork mutex and is locking another one or is in
\* the delay of eat()
BlocksHoldingFork(p) == Holds(p) # {} /\ ppc[p] \in {"second", "eat"}

\* every data mutex is held by exactly the threads inside its short section,
\* none of which is at a semaphore, at a lock, in a wait or in a delay
DataMutexesShort ==
    /\ mutex_buffer <=> BufferHolders # {}
    /\ Cardinality(BufferHolders) <= 1
    /\ lock <=> LockHolders # {}
    /\ Cardinality(LockHolders) <= 1
    /\ count_lock <=> CountLockHolders # {}
    /\ Cardinality(CountLockHolders) <= 1
    /\ \A c \in QConsumers : c \in not_empty => <<"consumer", c>> \notin LockHolders

\* C15 as written: in all three components no thread performs a blocking
\* operation (semaphore decrement, condition wait, gate acquisition,
\* acquisition of another lock, simulated-work delay) while it holds a mutex.
C15_NoBlockingWhileHolding ==
    /\ DataMutexesShort
    /\ \A p \in Phils : ~BlocksHoldingFork(p)

\* C15 amended: the buffer mutex, the queue lock and the count lock are held
\* only inside their short sections, and a consumer blocked in the condition
\* wait does not hold the queue lock; a philosopher waiting at the gate or
\* thinking holds no fork.  (Fork mutexes are held across the second
\* acquisition and across eat().)
C15_NoBlockingUnderDataMutex ==
    /\ DataMutexesShort
    /\ \A p \in Phils : ppc[p] \in {"think", "first", "post", "done"} =>
            \A f \in {left(p), right(p)} : forks[f] => HoldersOf(f) \ {p} # {}

\* a consumer is blocked in the condition wait while a producer has the lock
C15_Witness ==
    \E c \in QConsumers : /\ c \in not_empty
                          /\ qcPc[c] = "waiting"
                          /\ lock
                          /\ \E p \in QProducers : <<"producer", p>> \in LockHolders

\* min(left, right) and max(left, right) of philosopher p
LowerFork(p) == CHOOSE f \in {left(p), right(p)} : \A g \in {left(p), right(p)} : f <= g

HigherFork(p) == CHOOSE f \in {left(p), right(p)} : \A g \in {left(p), right(p)} : f >= g

\* C16: every philosopher locks min(left, right) before max(left, right): its
\* first lock step takes the lower fork while it holds none, its second lock
\* step takes the higher fork while it holds the lower one, and in every
\* reachable state no philosopher holds a higher-indexed fork while it waits for
\* a lower-indexed one.
C16_OrderedAcquisition ==
    /\ [](\A p \in Phils : ppc[p] = "second" =>
            /\ forks[LowerFork(p)]
            /\ \A f \in Holds(p) : f < SecondFork(p))
    /\ [][\A p \in Phils :
            /\ (ppc[p] = "first" /\ ppc'[p] = "second") =>
                    /\ ~forks[LowerFork(p)]
                    /\ forks' = [forks EXCEPT ![LowerFork(p)] = TRUE]
            /\ (ppc[p] = "second" /\ ppc'[p] = "eat") =>
                    /\ ~forks[HigherFork(p)]
                    /\ forks' = [forks EXCEPT ![HigherFork(p)] = TRUE]]_vars

\* the last philosopher (left = N-1, right = 0) holds fork 0 and waits for its
\* left fork N-1, which its neighbour holds
C16_Witness ==
    /\ num_philosophers >= 2
    /\ ppc[num_philosophers - 1] = "second"
    /\ Holds(num_philosophers - 1) = {0}
    /\ forks[num_philosophers - 1]

\* C17: each deadlock-prevention mechanism suffices on its own: with the N-1
\* gate and left-then-right locking, and with lower-index-first locking and no
\* gate, no reachable state is a deadlock and under fair scheduling every
\* philosopher completes its cycles.
C17_EitherMechanismSuffices ==
    /\ [](RingAllDone \/ ENABLED NextRingVariants)
    /\ <>[]RingAllDone

\* no gate: all N philosophers are past the waiter at once, N-1 of them hold
\* their lower fork and the last one waits for fork 0 holding nothing
C17_Witness ==
    /\ variant = "order_only"
    /\ num_philosophers >= 3
    /\ \A p \in Phils : ppc[p] \in {"first", "second"}
    /\ ppc[num_philosophers - 1] = "first"
    /\ \A p \in Phils : p < num_philosophers - 1 => ppc[p] = "second" /\ forks[p]

\* C18: a fork is held only by a philosopher that holds a ticket, a philosopher
\* holds at most its two forks, the ticket goes back to the waiter only in a
\* step of a philosopher that has released both forks, tickets available plus
\* admitted philosophers is N-1 in every reachable state, and once all have
\* finished every fork is free and the waiter is back at N-1.
C18_TicketDiscipline ==
    /\ [](/\ waiter + Cardinality(Admitted) = num_philosophers - 1
          /\ \A f \in DOMAIN forks : forks[f] => HoldersOf(f) \cap Admitted # {}
          /\ \A p \in Phils : Holds(p) \subseteq {left(p), right(p)}
          /\ (\A p \in Phils : ppc[p] = "done") =>
                /\ \A f \in DOMAIN forks : ~forks[f]
                /\ waiter = num_philosophers - 1)
    /\ [][waiter' > waiter =>
            \E p \in Phils : /\ ppc[p] = "post"
                             /\ ppc'[p] # "post"
                             /\ Holds(p) = {}
                             /\ Cardinality({f \in DOMAIN forks : forks[f]})
                                    <= 2 * (Cardinality(Admitted) - 1)
                             /\ waiter' = waiter + 1]_vars

\* a philosopher has released both forks and still has its ticket, and a
\* neighbour already holds the fork it put down
C18_Witness ==
    \E p \in Phils : /\ ppc[p] = "post"
                     /\ waiter = 0
                     /\ \E q \in Phils \ {p} : Holds(q) \cap {left(p), right(p)} # {}

(***************************************************************************)
(* The start of the three mains: the arguments are read with atoi and the  *)
(* threads are created; no main tests the values it has read.              *)
(***************************************************************************)
\* argv of dining_philosophers has been read, nothing is built yet
InitRingArgs ==
    /\ num_philosophers \in 1 .. MaxPhilosophers
    /\ cycles_per_philosopher \in 0 .. MaxCycles
    /\ forks = << >>
    /\ waiter = 0
    /\ ppc = << >>
    /\ cyc = << >>
    /\ eaten = << >>
    /\ variant = "program"
    /\ lang = "c"
    /\ NoBC
    /\ NoTsq

\* argv of producer_consumer has been read, nothing is built yet
InitBCArgs ==
    /\ NoRing
    /\ NoTsq
    /\ lang \in {"c", "go"}
    /\ num_producers \in 0 .. (MaxThreads - 1)
    /\ num_consumers \in 0 .. (MaxThreads - num_producers)
    /\ buffer_size \in 0 .. MaxBuffer
    /\ items_per_producer \in 0 .. (IF num_producers = 0 THEN 1 ELSE MaxTotal \div num_producers)
    /\ buffer = << >>
    /\ in = 0
    /\ out = 0
    /\ empty_slots = 0
    /\ full_slots = 0
    /\ mutex_buffer = FALSE
    /\ prodPc = << >>
    /\ prodI = << >>
    /\ prodItem = << >>
    /\ consPc = << >>
    /\ consItem = << >>
    /\ putLog = << >>
    /\ takeLog = << >>
    /\ bcMain = "init"

\* argv of tsqueue has been read, nothing is built yet
InitTsqArgs ==
    /\ NoRing
    /\ NoBC
    /\ lang \in {"c", "go"}
    /\ tsq_producers \in 0 .. (MaxThreads - 1)
    /\ tsq_consumers \in 0 .. (MaxThreads - tsq_producers)
    /\ tsq_items \in 0 .. (IF tsq_producers = 0 THEN 1 ELSE MaxTotal \div tsq_producers)
    /\ head = NULL
    /\ tail = NULL
    /\ nextNode = << >>
    /\ lock = FALSE
    /\ not_empty = {}
    /\ count_lock = FALSE
    /\ consumed_count = 0
    /\ qpPc = << >>
    /\ qpI = << >>
    /\ qcPc = << >>
    /\ qcItem = << >>
    /\ mainPc = "init"
    /\ enqLog = << >>
    /\ deqLog = << >>

RingStarted == num_philosophers > 0 /\ DOMAIN ppc # {}

BCStarted == bcMain \notin {"off", "init"}

TsqStarted == mainPc \notin {"off", "init"}

\* malloc forks, pthread_mutex_init, sem_init(&waiter, 0, num_philosophers - 1),
\* pthread_create of every philosopher
RingMainStart ==
    /\ num_philosophers > 0
    /\ ~RingStarted
    /\ forks' = [f \in 0 .. (num_philosophers - 1) |-> FALSE]
    /\ waiter' = WaiterInit
    /\ ppc' = [p \in 0 .. (num_philosophers - 1) |-> "think"]
    /\ cyc' = [p \in 0 .. (num_philosophers - 1) |-> 0]
    /\ eaten' = [p \in 0 .. (num_philosophers - 1) |-> 0]
    /\ UNCHANGED <<variant, num_philosophers, cycles_per_philosopher>>
    /\ UNCHANGED <<bcVars, tsqVars>>

\* malloc buffer, sem_init x 2, pthread_mutex_init, pthread_create of the
\* consumers and of the producers
BCMainStart ==
    /\ bcMain = "init"
    /\ buffer' = [k \in 0 .. (buffer_size - 1) |-> 0]
    /\ empty_slots' = buffer_size
    /\ full_slots' = 0
    /\ prodPc' = [p \in 0 .. (num_producers - 1) |-> "produce"]
    /\ prodI' = [p \in 0 .. (num_producers - 1) |-> 0]
    /\ prodItem' = [p \in 0 .. (num_producers - 1) |-> 0]
    /\ consPc' = [c \in 0 .. (num_consumers - 1) |-> "wait_full"]
    /\ consItem' = [c \in 0 .. (num_consumers - 1) |-> 0]
    /\ bcMain' = "join_producers"
    /\ UNCHANGED <<bcConf, in, out, mutex_buffer, putLog, takeLog>>
    /\ UNCHANGED <<ringVars, tsqVars>>

\* queue_init, pthread_mutex_init(&count_lock), pthread_create of the
\* producers and of the consumers
TsqMainStart ==
    /\ mainPc = "init"
    /\ qpPc' = [p \in 0 .. (tsq_producers - 1) |-> "produce"]
    /\ qpI' = [p \in 0 .. (tsq_producers - 1) |-> 0]
    /\ qcPc' = [c \in 0 .. (tsq_consumers - 1) |-> "check_lock"]
    /\ qcItem' = [c \in 0 .. (tsq_consumers - 1) |-> 0]
    /\ mainPc' = IF lang = "c" THEN "join_producers" ELSE "wait_all"
    /\ UNCHANGED <<tsqConf, head, tail, nextNode, lock, not_empty, count_lock,
                   consumed_count, enqLog, deqLog>>
    /\ UNCHANGED <<ringVars, bcVars>>

InitStartup == InitRingArgs \/ InitBCArgs \/ InitTsqArgs

NextStartup ==
    \/ RingMainStart
    \/ BCMainStart
    \/ TsqMainStart
    \/ RingStarted /\ NextRing
    \/ BCStarted /\ NextBC
    \/ TsqStarted /\ NextTsq

SpecStartup == InitStartup /\ [][NextStartup]_vars

\* the configurations that spec 6 calls invalid
RingConfigInvalid == num_philosophers < 2 \/ cycles_per_philosopher <= 0

BCConfigInvalid ==
    buffer_size <= 0 \/ num_producers <= 0 \/ num_consumers <= 0 \/ items_per_producer <= 0

TsqConfigInvalid == tsq_producers <= 0 \/ tsq_consumers <= 0 \/ tsq_items <= 0

\* C19: under an invalid configuration initialization ends before any worker
\* thread is started: no philosopher, producer or consumer thread ever exists.
C19_InvalidConfigRejected ==
    /\ RingConfigInvalid => ppc = << >>
    /\ BCConfigInvalid => prodPc = << >> /\ consPc = << >>
    /\ TsqConfigInvalid => qpPc = << >> /\ qcPc = << >>

\* the only shutdown signal of the program: main of tsqueue.c has joined the
\* producers (nothing will be enqueued any more) and has broadcast not_empty
ShutdownSignalled == lang = "c" /\ mainPc \in {"join_consumers", "done"}

\* C20: once the queue has been shut down, the items still enqueued are
\* drained and after that no dequeue call blocks: a consumer inside dequeue
\* with the queue empty gets a closed/empty result instead of waiting.
C20_GracefulShutdown ==
    ShutdownSignalled =>
        \A c \in QConsumers : ~(qcPc[c] = "waiting" /\ c \in not_empty /\ head = NULL)

\* C21: put decrements empty_slots before it takes the mutex and increments
\* full_slots only after its write is complete and the mutex released; take
\* decrements full_slots, reads under the mutex and increments empty_slots only
\* afterwards.  Hence full_slots never exceeds the number of written and unread
\* slots, and empty_slots never exceeds the number of free slots.
C21_ProtocolOrder ==
    /\ [](/\ full_slots <= occupied
          /\ empty_slots <= buffer_size - occupied)
    /\ [][/\ (putLog' # putLog \/ takeLog' # takeLog) =>
                /\ mutex_buffer /\ mutex_buffer'
                /\ UNCHANGED <<empty_slots, full_slots>>
          /\ (empty_slots' < empty_slots) =>
                \E p \in Producers : /\ prodPc[p] = "produce"
                                     /\ prodPc'[p] = "lock"
                                     /\ <<"producer", p>> \notin BufferHolders
          /\ (full_slots' > full_slots) =>
                \E p \in Producers : /\ prodPc[p] = "post_full"
                                     /\ <<"producer", p>> \notin BufferHolders
                                     /\ Len(putLog) > Len(takeLog)
          /\ (full_slots' < full_slots) =>
                \E c \in Consumers : /\ consPc[c] = "wait_full"
                                     /\ consPc'[c] = "lock"
          /\ (empty_slots' > empty_slots) =>
                \E c \in Consumers : /\ consPc[c] = "post_empty"
                                     /\ <<"consumer", c>> \notin BufferHolders
                                     /\ occupied < buffer_size]_vars

\* C program: one item is written and claimed by a consumer that has not read
\* it yet, while a producer holding the mutex is about to write the next one
C21_Witness ==
    /\ lang = "c"
    /\ occupied = 1
    /\ full_slots = 0
    /\ empty_slots = buffer_size - 2
    /\ \E c \in Consumers : consPc[c] = "lock"
    /\ \E p \in Producers : prodPc[p] = "write"

(***************************************************************************)
(* producer_consumer from the reading of argv to the end of the process.   *)
(***************************************************************************)
NextBCProgram ==
    \/ BCMainStart
    \/ BCStarted /\ NextBCRun
    \/ BCMainWaitReturns

SpecBCProgram == InitBCArgs /\ [][NextBCProgram]_vars

\* C22: in the Go program main's wg.Wait() waits for the producers only: once
\* every producer has returned the wait can return, and when the program ends
\* it is main that has gone on to its final message and exit, with the
\* consumers still in their loop.
C22_GoMainWaitsProducersOnly ==
    (lang = "go" /\ BCStarted /\ ~BCConfigInvalid) =>
        /\ (bcMain = "join_producers" /\ BCProducersJoined) => ENABLED BCMainWaitReturns
        /\ BCEnded => bcMain = "exited"

\* the scheduler keeps running some producer or consumer thread (goroutine) as
\* long as one of them is able to run
FairBC == WF_vars(NextBC)

FairSpecBC == SpecBC /\ FairBC

\* all puts are complete and all items have been taken: only the consumers
\* are left, waiting for a full slot
BCAllPut ==
    /\ \A p \in Producers : prodPc[p] = "done" /\ prodI[p] = items_per_producer
    /\ Len(putLog) = num_producers * items_per_producer

\* C23: with capacity >= 1 and at least one consumer, no reachable state is a
\* deadlock among producers and consumers (some thread can step until every
\* put is complete), and under fair scheduling every producer eventually
\* completes all of its items_per_producer puts, in the C and the Go program.
C23_ProducerProgress ==
    /\ [](BCAllPut \/ ENABLED NextBC)
    /\ <>[]BCAllPut

\* Go program with a single slot: two producers have completed all their puts
C23_Witness ==
    /\ lang = "go"
    /\ buffer_size = 1
    /\ num_producers >= 2
    /\ BCAllPut
    /\ Len(takeLog) = Len(putLog)

(***************************************************************************)
(* The end of main of producer_consumer.c step by step: the semaphores and *)
(* the mutex are destroyed and the buffer freed while the consumers, which *)
(* never return, are still running; only then does the process end.        *)
(***************************************************************************)
InitBCTeardown == InitBC /\ lang = "c"

\* printf; sem_destroy(&empty_slots); sem_destroy(&full_slots);
\* pthread_mutex_destroy(&mutex_buffer); free(buffer);
BCMainDestroy ==
    /\ bcMain = "destroy"
    /\ bcMain' = "torn_down"
    /\ UNCHANGED <<bcConf, buffer, in, out, empty_slots, full_slots, mutex_buffer,
                   prodPc, prodI, prodItem, consPc, consItem, putLog, takeLog>>
    /\ UNCHANGED <<ringVars, tsqVars>>

\* return 0: the process ends
BCMainReturn ==
    /\ bcMain = "torn_down"
    /\ bcMain' = "exited"
    /\ UNCHANGED <<bcConf, buffer, in, out, empty_slots, full_slots, mutex_buffer,
                   prodPc, prodI, prodItem, consPc, consItem, putLog, takeLog>>
    /\ UNCHANGED <<ringVars, tsqVars>>

\* sem_wait on the destroyed full_slots is undefined: besides blocking or
\* succeeding as before, it can return at once (its result is not tested);
\* the run is followed for one consumer at a time, until one read more than
\* the writes has been logged
ConsSemWaitDestroyed(c) ==
    /\ bcMain = "torn_down"
    /\ consPc[c] = "wait_full"
    /\ Len(takeLog) <= Len(putLog)
    /\ \A d \in Consumers : consPc[d] \in {"wait_full", "post_empty"}
    /\ consPc' = [consPc EXCEPT ![c] = "lock"]
    /\ UNCHANGED <<bcConf, bcMain, buffer, in, out, empty_slots, full_slots, mutex_buffer,
                   prodPc, prodI, prodItem, consItem, putLog, takeLog>>
    /\ UNCHANGED <<ringVars, tsqVars>>

\* int item = buffer[out] on the freed buffer is undefined: besides the old
\* content (ConsRead), a value that was never written can be read
ConsReadFreed(c) ==
    /\ bcMain = "torn_down"
    /\ consPc[c] = "read"
    /\ \E item \in {0} :
            /\ consItem' = [consItem EXCEPT ![c] = item]
            /\ takeLog' = Append(takeLog, item)
    /\ consPc' = [consPc EXCEPT ![c] = "advance"]
    /\ UNCHANGED <<bcConf, bcMain, buffer, in, out, empty_slots, full_slots, mutex_buffer,
                   prodPc, prodI, prodItem, putLog>>
    /\ UNCHANGED <<ringVars, tsqVars>>

NextBCTeardown ==
    \/ ~BCEnded /\ NextBC
    \/ BCMainJoinProducers
    \/ BCMainSleep
    \/ BCMainDestroy
    \/ BCMainReturn
    \/ \E c \in Consumers : ConsSemWaitDestroyed(c)
    \/ \E c \in Consumers : ConsReadFreed(c)

SpecBCTeardown == InitBCTeardown /\ [][NextBCTeardown]_vars

\* C24: once main has destroyed the semaphores and the mutex and freed the
\* buffer, no consumer performs a semaphore operation, a mutex operation or a
\* buffer read: no consumer takes a step of its loop after the teardown.
C24_NoUseAfterTeardown ==
    [][bcMain = "torn_down" =>
            /\ consPc' = consPc
            /\ takeLog' = takeLog
            /\ UNCHANGED <<empty_slots, full_slots, mutex_buffer, out>>]_vars

====
